---- MODULE Spec2Model ----
(***************************************************************************)
(* Hybrid retrieval pipeline of src/src/rag_chain.py: the role and         *)
(* override filter handling, the HybridRetriever (vector search, BM25      *)
(* search, restoration, post-hoc filtering, merge) and the lru_cache       *)
(* memoisation of the pipelines as used by src/src/routers/rag_router.py.  *)
(***************************************************************************)
EXTENDS Naturals, Sequences, FiniteSets, TLC

\* Python's None, and a metadata key that is absent (dict.get gives None).
None == "NONE"

DEFAULT_TENANT_ID == "default"

\* k of both sub-searches (search_kwargs {"k": 3}, BM25Retriever k=3).
K == 3

\* Total number of records in the vector index and the lexical snapshot
\* (no record twice in either).
MaxDocs == 3

(***************************************************************************)
(* Documents: langchain Document(page_content, metadata) with the metadata *)
(* keys the retriever reads.                                               *)
(***************************************************************************)
Doc(c, vis, ten, orig) ==
    [page_content |-> c, visibility |-> vis, tenant_id |-> ten, original_text |-> orig]

\* Records the vector index may hold (metadata as the ingestion writes it,
\* another tenant's record, and a legacy record without tenant_id).
VectorDocs ==
    { Doc("refund text", "public", DEFAULT_TENANT_ID, None),
      Doc("salary text", "admin_only", DEFAULT_TENANT_ID, None),
      Doc("refund text", "public", "t2", None),
      Doc("salary text", "public", None, None) }

\* Records the lexical snapshot may hold: tokenized copies carrying
\* original_text, plain copies, any visibility (also none) and any tenant.
LexicalDocs ==
    { Doc("refund  text", "public", DEFAULT_TENANT_ID, "refund text"),
      Doc("salary text", "admin_only", DEFAULT_TENANT_ID, None),
      Doc("salary text", "public", "t2", None),
      Doc("refund text", None, None, None) }

RECURSIVE SeqsUpTo(_, _)
SeqsUpTo(S, n) ==
    IF n = 0 THEN { <<>> }
    ELSE LET shorter == SeqsUpTo(S, n - 1)
         IN  shorter \cup { Append(s, x) : s \in shorter, x \in S }

SeqToSet(s) == { s[i] : i \in DOMAIN s }

Take(s, n) == IF Len(s) <= n THEN s ELSE SubSeq(s, 1, n)

Reverse(s) == [i \in 1..Len(s) |-> s[Len(s) + 1 - i]]

(***************************************************************************)
(* Filter dictionaries (filter_kwargs / Chroma where).  A value is tagged  *)
(* with its Python shape: a bare string, {"$eq": s}, {"$in": [..]}, a bare *)
(* list, a number (kept as its digits), or the key being absent.           *)
(***************************************************************************)
Absent == [k |-> "absent", v |-> <<>>]
Str(s) == [k |-> "str", v |-> <<s>>]
Eq(s) == [k |-> "eq", v |-> <<s>>]
In(l) == [k |-> "in", v |-> l]
List(l) == [k |-> "list", v |-> l]
Num(n) == [k |-> "num", v |-> <<n>>]

Clause(f, val) == [field |-> f, val |-> val]

FilterDict(hasAnd, clauses, ten, vis, src) ==
    [has_and |-> hasAnd, and |-> clauses, tenant_id |-> ten, visibility |-> vis,
     source |-> src]

\* filter_kwargs=None (and the empty dict): falsy in Python.
NoFilter == FilterDict(FALSE, <<>>, Absent, Absent, Absent)

Truthy(f) == f # NoFilter

(***************************************************************************)
(* Role policy and filter parsing.                                         *)
(***************************************************************************)
\* The policy without the admin tier.
_visibility_allowed_for_role_public_only(role) == <<"public">>

_visibility_allowed_for_role(role) ==
    IF role = "admin" THEN <<"public", "admin_only">> ELSE <<"public">>

\* Optional[List[str]]: some = FALSE is None.
NoList == [some |-> FALSE, v |-> <<>>]
SomeList(l) == [some |-> TRUE, v |-> l]

_extract(vis_filter) ==
    IF vis_filter.k = "in" THEN SomeList(vis_filter.v)
    ELSE IF vis_filter.k = "list" THEN SomeList(vis_filter.v)
    ELSE NoList

RECURSIVE VisFromClauses(_)
VisFromClauses(clauses) ==
    IF clauses = <<>> THEN NoList
    ELSE LET clause == Head(clauses)
             extracted == _extract(clause.val)
         IN  IF clause.field = "visibility" /\ extracted.some
             THEN extracted
             ELSE VisFromClauses(Tail(clauses))

\* _visibility_from_filter reading the flat clause before the $and list.
_visibility_from_filter_flat_first(filter_kwargs) ==
    IF ~Truthy(filter_kwargs) THEN NoList
    ELSE IF filter_kwargs.visibility # Absent THEN _extract(filter_kwargs.visibility)
    ELSE IF filter_kwargs.has_and THEN VisFromClauses(filter_kwargs.and)
    ELSE NoList

_visibility_from_filter(filter_kwargs) ==
    IF ~Truthy(filter_kwargs) THEN NoList
    ELSE IF filter_kwargs.has_and THEN VisFromClauses(filter_kwargs.and)
    ELSE IF filter_kwargs.visibility # Absent THEN _extract(filter_kwargs.visibility)
    ELSE NoList

\* tenant of one value: a dict gives .get("$eq"), anything else itself.
TenantOfValue(val) ==
    IF val.k = "eq" THEN val.v[1]
    ELSE IF val.k \in {"str", "num"} THEN val.v[1]
    ELSE None

RECURSIVE TenantFromClauses(_)
TenantFromClauses(clauses) ==
    IF clauses = <<>> THEN None
    ELSE LET clause == Head(clauses)
         IN  IF clause.field = "tenant_id"
             THEN TenantOfValue(clause.val)
             ELSE TenantFromClauses(Tail(clauses))

\* _tenant_from_filter reading the flat form only.
_tenant_from_filter_flat_only(filter_kwargs) ==
    IF ~Truthy(filter_kwargs) THEN None
    ELSE TenantOfValue(filter_kwargs.tenant_id)

_tenant_from_filter(filter_kwargs) ==
    IF ~Truthy(filter_kwargs) THEN None
    ELSE IF filter_kwargs.has_and THEN TenantFromClauses(filter_kwargs.and)
    ELSE TenantOfValue(filter_kwargs.tenant_id)

\* Python's `x or y` on Optional[str] and on lists.
OrStr(x, y) == IF x = None \/ x = "" THEN y ELSE x
OrList(x, y) == IF x = <<>> THEN y ELSE x

_make_where_filter(tenant_id, visibility_in) ==
    LET cleaned_visibility == SelectSeq(visibility_in, LAMBDA v : v # None)
    IN  FilterDict(TRUE,
                   << Clause("tenant_id", Eq(tenant_id)),
                      Clause("visibility", In(cleaned_visibility)) >>,
                   Absent, Absent, Absent)

(***************************************************************************)
(* Retriever objects.  A vector-only retriever is Chroma's own retriever   *)
(* carrying search_kwargs["filter"]; a HybridRetriever also carries the    *)
(* bound visibility list and tenant.                                       *)
(***************************************************************************)
VectorRetriever(where_filter) ==
    [kind |-> "vector", where |-> where_filter,
     visibility_allowed |-> <<>>, tenant_id |-> None]

HybridRetriever(vector_retriever, visibility_allowed, tenant_id) ==
    [kind |-> "hybrid", where |-> vector_retriever.where,
     visibility_allowed |-> OrList(visibility_allowed, <<>>), tenant_id |-> tenant_id]

\* The role retriever built with the admin visibility set for every role.
build_vector_retriever_for_role_admin_set(role) ==
    VectorRetriever(_make_where_filter(DEFAULT_TENANT_ID,
                                       _visibility_allowed_for_role("admin")))

build_vector_retriever_for_role(role) ==
    VectorRetriever(_make_where_filter(DEFAULT_TENANT_ID,
                                       _visibility_allowed_for_role(role)))

\* The Chroma filter chosen for a truthy filter_kwargs.
OverrideWhere(role, filter_kwargs) ==
    LET tenant_id == OrStr(_tenant_from_filter(filter_kwargs), DEFAULT_TENANT_ID)
        vis_from_filter == OrList(_visibility_from_filter(filter_kwargs).v, <<>>)
    IN  IF filter_kwargs.has_and THEN filter_kwargs
        ELSE IF filter_kwargs.tenant_id # Absent \/ filter_kwargs.visibility # Absent
        THEN _make_where_filter(tenant_id,
                 OrList(vis_from_filter, _visibility_allowed_for_role(role)))
        ELSE filter_kwargs

\* The visibility list handed to HybridRetriever.
BoundVisibility(role, filter_kwargs) ==
    IF Truthy(filter_kwargs)
    THEN OrList(_visibility_from_filter(filter_kwargs).v, <<>>)
    ELSE _visibility_allowed_for_role(role)

\* The tenant handed to HybridRetriever.
BoundTenant(filter_kwargs) ==
    IF Truthy(filter_kwargs)
    THEN OrStr(_tenant_from_filter(filter_kwargs), DEFAULT_TENANT_ID)
    ELSE DEFAULT_TENANT_ID

\* _build_retriever wrapping the vector retriever even without a BM25Retriever.
_build_retriever_always_hybrid(role, filter_kwargs, bm25_retriever) ==
    LET vector_retriever ==
            IF Truthy(filter_kwargs)
            THEN VectorRetriever(OverrideWhere(role, filter_kwargs))
            ELSE build_vector_retriever_for_role(role)
    IN  HybridRetriever(vector_retriever,
                        BoundVisibility(role, filter_kwargs),
                        BoundTenant(filter_kwargs))

\* bm25_retriever is what _get_bm25_retriever() returned: TRUE for a
\* BM25Retriever, FALSE for None.
_build_retriever(role, filter_kwargs, bm25_retriever) ==
    LET vector_retriever ==
            IF Truthy(filter_kwargs)
            THEN VectorRetriever(OverrideWhere(role, filter_kwargs))
            ELSE build_vector_retriever_for_role(role)
    IN  IF bm25_retriever
        THEN HybridRetriever(vector_retriever,
                             BoundVisibility(role, filter_kwargs),
                             BoundTenant(filter_kwargs))
        ELSE vector_retriever

(***************************************************************************)
(* The two indices.  The vector index enforces the where predicate it is   *)
(* given and returns its k best matches; the lexical index has no filter   *)
(* and returns its k best records.  The ranking is a fixed function of the *)
(* index contents and the query.                                           *)
(***************************************************************************)
Queries == { "refundpolicy", "refund" }

\* janome's segmentation of the queries.
Tokens(text) == IF text = "refundpolicy" THEN <<"refund", "policy">> ELSE <<text>>

RECURSIVE Join(_)
Join(tokens) ==
    IF tokens = <<>> THEN ""
    ELSE IF Len(tokens) = 1 THEN tokens[1]
    ELSE tokens[1] \o " " \o Join(Tail(tokens))

_tokenize_question(text) == Join(Tokens(text))

FieldOf(d, field) ==
    IF field = "tenant_id" THEN d.tenant_id
    ELSE IF field = "visibility" THEN d.visibility
    ELSE "a.txt"

ValueMatches(val, x) ==
    IF val.k = "absent" THEN TRUE
    ELSE IF val.k \in {"str", "eq", "num"} THEN x # None /\ x = val.v[1]
    ELSE x # None /\ x \in SeqToSet(val.v)

Matches(where_filter, d) ==
    /\ \A i \in DOMAIN where_filter.and :
           ValueMatches(where_filter.and[i].val, FieldOf(d, where_filter.and[i].field))
    /\ ValueMatches(where_filter.tenant_id, d.tenant_id)
    /\ ValueMatches(where_filter.visibility, d.visibility)
    /\ ValueMatches(where_filter.source, FieldOf(d, "source"))

VecRank(index, q) == IF q = "refundpolicy" THEN index ELSE Reverse(index)

VectorSearch(index, where_filter, q) ==
    Take(SelectSeq(VecRank(index, q), LAMBDA d : Matches(where_filter, d)), K)

LexRank(snapshot, tokenized_query) ==
    IF tokenized_query = "refund policy" THEN snapshot ELSE Reverse(snapshot)

BM25Search(snapshot, tokenized_query) == Take(LexRank(snapshot, tokenized_query), K)

(***************************************************************************)
(* HybridRetriever.                                                        *)
(***************************************************************************)
\* The restoration left out: the stored text stays the content.
_restore_bm25_text_skipped(bm25_docs) == bm25_docs

_restore_bm25_text(bm25_docs) ==
    [i \in 1..Len(bm25_docs) |->
        LET doc == bm25_docs[i]
            original_text == IF doc.original_text # None THEN doc.original_text
                             ELSE doc.page_content
        IN  [doc EXCEPT !.page_content = original_text]]

\* _filter_docs without the visibility test.
_filter_docs_tenant_only(self, docs) ==
    SelectSeq(docs, LAMBDA doc : doc.tenant_id \in {None, self.tenant_id})

_filter_docs(self, docs) ==
    LET allowed_vis == SeqToSet(self.visibility_allowed)
        keep(doc) == /\ ~(allowed_vis # {} /\ doc.visibility \notin allowed_vis)
                     /\ doc.tenant_id \in {None, self.tenant_id}
    IN  SelectSeq(docs, keep)

\* merged: the dict of the loop, in insertion order.
RECURSIVE MergeInto(_, _)
MergeInto(merged, docs) ==
    IF docs = <<>> THEN merged
    ELSE LET doc == Head(docs)
             key == doc.page_content
         IN  IF \E i \in DOMAIN merged : merged[i].page_content = key
             THEN MergeInto(merged, Tail(docs))
             ELSE MergeInto(Append(merged, doc), Tail(docs))

\* The merge inserting the lexical documents first.
Merge_lexical_first(vector_docs, bm25_docs) == MergeInto(<<>>, bm25_docs \o vector_docs)

Merge(vector_docs, bm25_docs) == MergeInto(<<>>, vector_docs \o bm25_docs)

\* The vector documents taken as the store returned them.
HybridVectorDocs_unfiltered(self, index, q) ==
    VectorSearch(index, self.where, q)

\* The vector documents after the retriever's own filter.
HybridVectorDocs(self, index, q) ==
    _filter_docs(self, VectorSearch(index, self.where, q))

\* The lexical documents after restoration and the retriever's filter.
HybridBM25Docs(self, snapshot, q) ==
    _filter_docs(self, _restore_bm25_text(BM25Search(snapshot, _tokenize_question(q))))

\* The merge with the lexical documents inserted before the vector ones.
_get_relevant_documents_lexical_first(self, index, snapshot, q) ==
    Merge(HybridBM25Docs(self, snapshot, q), HybridVectorDocs(self, index, q))

_get_relevant_documents(self, index, snapshot, q) ==
    Merge(HybridVectorDocs(self, index, q), HybridBM25Docs(self, snapshot, q))

\* retriever.get_relevant_documents(query) of whatever _build_retriever gave.
Retrieve(retriever, index, snapshot, q) ==
    IF retriever.kind = "hybrid"
    THEN _get_relevant_documents(retriever, index, snapshot, q)
    ELSE VectorSearch(index, retriever.where, q)

(***************************************************************************)
(* State.                                                                   *)
(***************************************************************************)
VARIABLES
    \* one pipeline under retrieval
    cfg,            \* how the pipeline was asked for: role, filter_kwargs, bm25
    pipeline,       \* the retriever _build_retriever returned
    vector_index,   \* the Chroma collection, in stored order
    bm25_snapshot,  \* the records loaded into the BM25Retriever
    last_query,     \* the query of the latest retrieve call
    result,         \* its outcome: none yet, a document list, or raised
    \* the process-wide memoisation and the request threads
    rag_cache,      \* lru_cache of get_rag_chain: entries oldest first
    vs_cache,       \* lru_cache of get_vectorstore: populated or not
    bm25_cache,     \* lru_cache of _get_bm25_retriever: empty, None or a retriever
    file_exists,    \* bm25_documents.json is on disk
    pc,             \* where each thread is inside its call
    frame,          \* the arguments and locals of each thread's call
    returned,       \* what each thread's latest call gave its caller (rag_qa),
                    \* dropped when the thread starts building again
    calls,          \* calls started so far
    chroma_built    \* Chroma instances constructed so far

rvars == << cfg, pipeline, vector_index, bm25_snapshot, last_query, result >>
cvars == << rag_cache, vs_cache, bm25_cache, file_exists, pc, frame, returned,
            calls, chroma_built >>
vars == << cfg, pipeline, vector_index, bm25_snapshot, last_query, result,
           rag_cache, vs_cache, bm25_cache, file_exists, pc, frame, returned,
           calls, chroma_built >>

\* User.role is a free-form string column; the router passes it through.
Roles == { "admin", "user", "guest" }

\* What current_user.role may hold: the column is nullable and unvalidated.
RawRoles == Roles \cup { "", None }

\* rag_chat: getattr(current_user, "role", "user") or "user".
RouterRole(raw) == IF raw \in { None, "" } THEN "user" ELSE raw

(***************************************************************************)
(* Override filters handed to get_qa_chain(filter_kwargs).                 *)
(***************************************************************************)
TenantValues == { Str(DEFAULT_TENANT_ID), Str("t2"), Eq("t2") }

VisValues == { List(<<"public">>), In(<<"public", "admin_only">>) }

FlatFilters ==
    { FilterDict(FALSE, <<>>, t, v, Absent) :
        t \in TenantValues \cup {Absent}, v \in VisValues \cup {Absent} }
    \ { NoFilter }

AndFilters ==
    { FilterDict(TRUE, << Clause("tenant_id", t), Clause("visibility", In(<<"public">>)) >>,
                 Absent, Absent, Absent) : t \in TenantValues }
    \cup
    { FilterDict(TRUE, << Clause("visibility", In(<<"public", "admin_only">>)),
                          Clause("tenant_id", Eq("t2")) >>,
                 Absent, Absent, Absent),
      FilterDict(TRUE, << Clause("source", Str("a.txt")), Clause("tenant_id", Str("t2")) >>,
                 Absent, Absent, Absent) }
    \cup
    { FilterDict(TRUE, << Clause("source", Str("a.txt")),
                          Clause("visibility", In(<<"public">>)) >>,
                 Absent, Absent, Absent) }

\* Neither form: another key only; a visibility that is a bare string; and
\* both forms at once for tenant_id and for visibility.
OtherFilters ==
    { FilterDict(FALSE, <<>>, Absent, Absent, Str("a.txt")),
      FilterDict(FALSE, <<>>, Absent, Str("public"), Absent),
      FilterDict(TRUE, << Clause("tenant_id", Str(DEFAULT_TENANT_ID)),
                          Clause("visibility", In(<<"public">>)) >>,
                 Str("t2"), List(<<"public", "admin_only">>), Absent) }

\* Filters a caller can pass although the parsers were not written for
\* them: a None inside the visibility list (flat and list-form), and
\* values that are numbers.
MalformedFilters ==
    { FilterDict(FALSE, <<>>, Absent, In(<<"public", None>>), Absent),
      FilterDict(TRUE, << Clause("tenant_id", Eq(DEFAULT_TENANT_ID)),
                          Clause("visibility", In(<<"public", None>>)) >>,
                 Absent, Absent, Absent),
      FilterDict(FALSE, <<>>, Num("42"), Num("7"), Absent) }

OverrideFilters == FlatFilters \cup AndFilters \cup OtherFilters \cup MalformedFilters

Config(role, filter_kwargs, bm25) ==
    [role |-> role, filter |-> filter_kwargs, bm25 |-> bm25]

\* get_rag_chain(role) for any role; get_qa_chain(filter_kwargs) builds
\* with role "user".
Configs ==
    { Config(r, NoFilter, b) : r \in Roles, b \in BOOLEAN }
    \cup { Config("user", f, b) : f \in OverrideFilters, b \in BOOLEAN }

(***************************************************************************)
(* What the vector index accepts as a where document: one top-level        *)
(* operator; $and over at least two single-field expressions; $in over a   *)
(* non-empty list; no bare list as a value.                                *)
(***************************************************************************)
ValueValid(val) ==
    \/ val.k \in {"str", "eq", "num"}
    \/ val.k = "in" /\ val.v # <<>> /\ None \notin SeqToSet(val.v)

WhereValid(where_filter) ==
    LET flat == { x \in { where_filter.tenant_id, where_filter.visibility,
                          where_filter.source } : x # Absent }
        nflat == (IF where_filter.tenant_id # Absent THEN 1 ELSE 0)
                 + (IF where_filter.visibility # Absent THEN 1 ELSE 0)
                 + (IF where_filter.source # Absent THEN 1 ELSE 0)
    IN  IF where_filter.has_and
        THEN /\ nflat = 0
             /\ Len(where_filter.and) >= 2
             /\ \A i \in DOMAIN where_filter.and : ValueValid(where_filter.and[i].val)
        ELSE /\ nflat = 1
             /\ \A x \in flat : ValueValid(x)

\* repeat: the call before this one succeeded with the same query on the
\* same index contents.  failed: the component that raised during the call
\* ("where" is the vector index rejecting the where document).
NoResult == [status |-> "none", docs |-> <<>>, repeat |-> FALSE, failed |-> "none"]
Raised(failed) == [status |-> "raised", docs |-> <<>>, repeat |-> FALSE, failed |-> failed]
Ok(docs) == [status |-> "ok", docs |-> docs, repeat |-> FALSE, failed |-> "none"]

\* The component that fails during one call, if any.  The tokenizer and
\* the lexical index are only called by a HybridRetriever.
Failures(retriever) ==
    IF retriever.kind = "hybrid" THEN { "none", "vector", "tokenizer", "lexical" }
    ELSE { "none", "vector" }

\* The vector failure swallowed: the call answers with what the lexical
\* side has.
RetrieveOutcome_vector_caught(retriever, index, snapshot, q, failure) ==
    IF failure = "vector"
    THEN [Ok(IF retriever.kind = "hybrid" THEN HybridBM25Docs(retriever, snapshot, q)
             ELSE <<>>) EXCEPT !.failed = "vector"]
    ELSE IF ~WhereValid(retriever.where) THEN Raised("where")
    ELSE IF failure \in {"tokenizer", "lexical"} THEN Raised(failure)
    ELSE Ok(Retrieve(retriever, index, snapshot, q))

\* One call of retriever.get_relevant_documents(q).  The vector search runs
\* first, then the tokenizer, then the lexical search; nothing in the call
\* path catches an exception of any of them.
RetrieveOutcome(retriever, index, snapshot, q, failure) ==
    IF failure = "vector" THEN Raised("vector")
    ELSE IF ~WhereValid(retriever.where) THEN Raised("where")
    ELSE IF failure \in {"tokenizer", "lexical"} THEN Raised(failure)
    ELSE Ok(Retrieve(retriever, index, snapshot, q))

\* The snapshot held as a one-shot iterator: the first call consumes it.
SnapshotConsumed(snapshot) == <<>>

\* The BM25 snapshot after a call: _restore_bm25_text builds new Documents
\* and no method assigns to the retriever, so the loaded records stay.
SnapshotAfterCall(snapshot) == snapshot

(***************************************************************************)
(* Retrieval on one pipeline: specification SpecRetrieve.                  *)
(***************************************************************************)
Threads == { "T1", "T2" }

\* Calls of get_rag_chain / get_qa_chain started in one run.
MaxCalls == 3

\* maxsize of the lru_cache around get_rag_chain.
RagCacheMaxSize == 10

IdleFrame ==
    [via |-> "none", role |-> "user", filter |-> NoFilter, id |-> 0,
     bm25 |-> FALSE, prior |-> {}, after_degraded |-> FALSE, after_failure |-> FALSE]

NoReturn ==
    [status |-> "none", via |-> "none", role |-> "user", filter |-> NoFilter,
     id |-> 0, retr |-> VectorRetriever(NoFilter), cause |-> "none",
     after_failure |-> FALSE]

CacheInit ==
    /\ rag_cache = <<>>
    /\ vs_cache = FALSE
    /\ bm25_cache = "empty"
    /\ pc = [t \in Threads |-> "idle"]
    /\ frame = [t \in Threads |-> IdleFrame]
    /\ returned = [t \in Threads |-> NoReturn]
    /\ calls = 0
    /\ chroma_built = 0

RetrieveInit ==
    /\ cfg \in Configs
    /\ pipeline = _build_retriever(cfg.role, cfg.filter, cfg.bm25)
    /\ bm25_snapshot \in IF cfg.bm25
                         THEN { l \in SeqsUpTo(LexicalDocs, MaxDocs) :
                                    Cardinality(SeqToSet(l)) = Len(l) }
                         ELSE { <<>> }
    /\ vector_index = <<>>
    /\ last_query = "refund"
    /\ result = NoResult
    /\ CacheInit
    /\ file_exists = FALSE

\* The ingestion adds a record to the Chroma collection, each record once.
IngestVector(d) ==
    /\ Len(vector_index) + Len(bm25_snapshot) < MaxDocs
    /\ d \notin SeqToSet(vector_index)
    /\ vector_index' = Append(vector_index, d)
    /\ result' = NoResult
    /\ last_query' = "refund"
    /\ UNCHANGED << cfg, pipeline, bm25_snapshot >>
    /\ UNCHANGED cvars

\* rag_qa.invoke({"query": q}) reaching retriever.get_relevant_documents(q).
RetrieveCall(q, failure) ==
    /\ last_query' = q
    /\ LET outcome == RetrieveOutcome(pipeline, vector_index, bm25_snapshot, q,
                                      failure)
       IN  result' = [outcome EXCEPT !.repeat = /\ outcome.status = "ok"
                                                /\ result.status = "ok"
                                                /\ q = last_query]
    /\ bm25_snapshot' = SnapshotAfterCall(bm25_snapshot)
    /\ UNCHANGED << cfg, pipeline, vector_index >>
    /\ UNCHANGED cvars

RetrieveNext ==
    \/ \E d \in VectorDocs : IngestVector(d)
    \/ \E q \in Queries, failure \in Failures(pipeline) : RetrieveCall(q, failure)

SpecRetrieve == RetrieveInit /\ [][RetrieveNext]_vars

(***************************************************************************)
(* Properties of retrieval (SpecRetrieve).                                 *)
(***************************************************************************)
Tenants == { DEFAULT_TENANT_ID, "t2" }

\* allowed_visibility of the policy table: admin sees both tiers, user one.
AllowedVisibility(role) ==
    IF role = "admin" THEN { "public", "admin_only" } ELSE { "public" }

ResultDocs == SeqToSet(result.docs)

Contents(docs) == { docs[i].page_content : i \in DOMAIN docs }

\* What the lexical index answers for the latest query.
LexicalAnswer == BM25Search(bm25_snapshot, _tokenize_question(last_query))

\* C1: for role admin or user, every Document a retrieve call on the
\* role-built retriever returns has a visibility the role is allowed,
\* with and without a Lexical Index bound.
C1_RoleVisibility ==
    (cfg.filter = NoFilter /\ cfg.role \in {"admin", "user"} /\ result.status = "ok")
        => \A d \in ResultDocs : d.visibility \in AllowedVisibility(cfg.role)

\* A user retrieval in hybrid mode that returned documents although the
\* lexical index answered with an admin_only record.
C1_Witness ==
    /\ cfg.filter = NoFilter /\ cfg.role = "user" /\ cfg.bm25
    /\ result.status = "ok" /\ result.docs # <<>>
    /\ \E d \in SeqToSet(LexicalAnswer) : d.visibility = "admin_only"

\* The tenants a configuration names: the default tenant on the role path,
\* the flat and list-form tenant_id clauses of an override filter.
NamedTenants(c) ==
    IF c.filter = NoFilter THEN { DEFAULT_TENANT_ID }
    ELSE { TenantOfValue(c.filter.tenant_id) : x \in { c.filter.tenant_id } \ { Absent } }
         \cup { TenantOfValue(c.filter.and[i].val) :
                    i \in { j \in DOMAIN c.filter.and :
                                c.filter.and[j].field = "tenant_id" } }

\* C2: a retrieval scoped to tenant t1 never returns a Document whose
\* tenant_id is another tenant t2, in hybrid and in vector-only mode.
C2_TenantIsolation ==
    \A t1 \in Tenants :
        (NamedTenants(cfg) = { t1 } /\ result.status = "ok")
            => \A d \in ResultDocs : d.tenant_id \notin Tenants \ { t1 }

\* A list-form override naming t2, hybrid mode, documents returned while
\* the lexical index answered with a record of the default tenant.
C2_Witness ==
    /\ cfg.filter.has_and /\ NamedTenants(cfg) = { "t2" } /\ cfg.bm25
    /\ result.status = "ok" /\ result.docs # <<>>
    /\ \E d \in SeqToSet(LexicalAnswer) : d.tenant_id = DEFAULT_TENANT_ID

FirstWith(docs, c) ==
    docs[CHOOSE i \in DOMAIN docs :
            /\ docs[i].page_content = c
            /\ \A j \in 1..(i - 1) : docs[j].page_content # c]

\* C3: a content string both sub-searches produce (the lexical one after
\* restoration, both after the access filter) is in the merged result exactly
\* once, as the vector-sourced Document with its metadata.
C3_DedupKeepsVector ==
    (pipeline.kind = "hybrid" /\ result.status = "ok") =>
        LET vector_docs == HybridVectorDocs(pipeline, vector_index, last_query)
            bm25_docs == HybridBM25Docs(pipeline, bm25_snapshot, last_query)
        IN  \A c \in Contents(vector_docs) \cap Contents(bm25_docs) :
                /\ Cardinality({ i \in DOMAIN result.docs :
                                    result.docs[i].page_content = c }) = 1
                /\ FirstWith(vector_docs, c) \in ResultDocs

\* Scenario A: role user, vector [D1 public], lexical [D1 (tokenized copy with
\* original_text), D2 admin_only]; the result is [D1] as the vector index has it.
C3_Witness ==
    /\ cfg = Config("user", NoFilter, TRUE)
    /\ vector_index = << Doc("refund text", "public", DEFAULT_TENANT_ID, None) >>
    /\ bm25_snapshot = << Doc("refund  text", "public", DEFAULT_TENANT_ID, "refund text"),
                          Doc("salary text", "admin_only", DEFAULT_TENANT_ID, None) >>
    /\ result.status = "ok"
    /\ result.docs = << Doc("refund text", "public", DEFAULT_TENANT_ID, None) >>

\* C5: with no Lexical Index bound the retriever returns exactly the list of
\* the vector-only retriever for the same query and filter: same Documents,
\* same order, nothing added, dropped or deduplicated.
C5_DegradedEqualsVectorOnly ==
    (~cfg.bm25 /\ result.status = "ok") =>
        LET vector_only == IF cfg.filter = NoFilter
                           THEN build_vector_retriever_for_role(cfg.role)
                           ELSE VectorRetriever(OverrideWhere(cfg.role, cfg.filter))
        IN  result.docs = VectorSearch(vector_index, vector_only.where, last_query)

\* A vector-only retrieval whose result holds the same content twice.
C5_Witness ==
    /\ ~cfg.bm25 /\ result.status = "ok"
    /\ Len(result.docs) > Cardinality(Contents(result.docs))

HasVisibilityClause(f) ==
    \/ f.visibility # Absent
    \/ \E i \in DOMAIN f.and : f.and[i].field = "visibility"

\* C7: a retriever built from an override filter without a visibility
\* clause returns only Documents whose visibility the caller's role is
\* allowed, lexical ones included.
C7_OverrideFallsBackToRoleVisibility ==
    (cfg.filter # NoFilter /\ ~HasVisibilityClause(cfg.filter) /\ result.status = "ok")
        => \A d \in ResultDocs : d.visibility \in AllowedVisibility(cfg.role)

WhereVisibility(where_filter) ==
    { SeqToSet(where_filter.and[i].val.v) :
          i \in { j \in DOMAIN where_filter.and :
                      where_filter.and[j].field = "visibility" } }
    \cup { SeqToSet(where_filter.visibility.v) :
              x \in { where_filter.visibility } \ { Absent } }

\* The visibility list bound to the retriever's own filter, as a set.
BoundVisibilitySets(retriever) ==
    IF retriever.kind = "hybrid" THEN { SeqToSet(retriever.visibility_allowed) } ELSE {}

C13_NoNullVisibility ==
    /\ \A vis \in WhereVisibility(pipeline.where) : None \notin vis
    /\ \A vis \in BoundVisibilitySets(pipeline) : None \notin vis

\* Positions of the list-form clauses of an override filter for a field.
ListFormClauses(f, field) ==
    { i \in DOMAIN f.and : f.has_and /\ f.and[i].field = field }

FlatClause(f, field) == IF field = "tenant_id" THEN f.tenant_id ELSE f.visibility

\* Both a flat and a list-form clause for the field.
Ambiguous(f, field) ==
    FlatClause(f, field) # Absent /\ ListFormClauses(f, field) # {}

\* C14: when an override filter carries a flat and a list-form ($and) clause
\* for the same field, tenant_id or visibility, the value parsed for the
\* field, and bound to the retriever, is the list-form one.
C14_ListFormWins ==
    \A field \in {"tenant_id", "visibility"} :
        Ambiguous(cfg.filter, field) =>
            LET i == CHOOSE j \in ListFormClauses(cfg.filter, field) :
                         \A k \in ListFormClauses(cfg.filter, field) : j <= k
                val == cfg.filter.and[i].val
            IN  IF field = "tenant_id"
                THEN /\ _tenant_from_filter(cfg.filter) = val.v[1]
                     /\ pipeline.kind = "hybrid" => pipeline.tenant_id = val.v[1]
                ELSE /\ _visibility_from_filter(cfg.filter) = SomeList(val.v)
                     /\ pipeline.kind = "hybrid" => pipeline.visibility_allowed = val.v

\* A hybrid retriever built from a filter whose flat clauses (tenant t2,
\* both tiers) differ from its list-form clauses (default tenant, public),
\* after a retrieve call.
C14_Witness ==
    /\ Ambiguous(cfg.filter, "tenant_id") /\ Ambiguous(cfg.filter, "visibility")
    /\ TenantOfValue(cfg.filter.tenant_id) = "t2"
    /\ SeqToSet(cfg.filter.visibility.v) = { "public", "admin_only" }
    /\ pipeline.kind = "hybrid"
    /\ pipeline.tenant_id = DEFAULT_TENANT_ID
    /\ pipeline.visibility_allowed = <<"public">>
    /\ result.status # "none"

\* The tenant clauses of a where document: list-form and flat.
WhereTenants(where_filter) ==
    { where_filter.and[i].val :
          i \in { j \in DOMAIN where_filter.and :
                      where_filter.and[j].field = "tenant_id" } }
    \cup ({ where_filter.tenant_id } \ { Absent })

\* C15: a retriever built from an override filter without a tenant_id
\* clause in either form is scoped to the default tenant: the bound tenant
\* and the tenant clause of the predicate sent to the Vector Index are
\* "default", so no other tenant's Document is returned.
C15_MissingTenantDefaults ==
    (cfg.filter # NoFilter /\ NamedTenants(cfg) = {}) =>
        /\ pipeline.kind = "hybrid" => pipeline.tenant_id = DEFAULT_TENANT_ID
        /\ WhereTenants(pipeline.where) = { Eq(DEFAULT_TENANT_ID) }
        /\ result.status = "ok" =>
               \A d \in ResultDocs : d.tenant_id \in { None, DEFAULT_TENANT_ID }

\* A tenant_id or visibility value, flat or list-form, that is neither a
\* string nor a list (nor an operator map): here a number.
StructurallyInvalid(f) ==
    \E field \in {"tenant_id", "visibility"} :
        \/ FlatClause(f, field).k = "num"
        \/ \E i \in ListFormClauses(f, field) : f.and[i].val.k = "num"

\* C16: from a structurally invalid override filter no retriever is built,
\* so no retrieve call answers for it.
C16_MalformedFilterRejected ==
    StructurallyInvalid(cfg.filter) =>
        /\ pipeline.kind \notin {"vector", "hybrid"}
        /\ result.status # "ok"

\* C17: a Lexical Index failure during a retrieve call is caught: the call
\* does not raise and returns exactly the vector results of that call.
C17_LexicalFailureAbsorbed ==
    result.failed = "lexical" =>
        /\ result.status = "ok"
        /\ result.docs = HybridVectorDocs(pipeline, vector_index, last_query)

\* C18: a tokenizer failure is absorbed: the query goes to the lexical
\* search untokenized and the call returns the merged result.
C18_TokenizerFailureAbsorbed ==
    result.failed = "tokenizer" =>
        /\ result.status = "ok"
        /\ result.docs =
               Merge(HybridVectorDocs(pipeline, vector_index, last_query),
                     _filter_docs(pipeline,
                         _restore_bm25_text(BM25Search(bm25_snapshot, last_query))))

\* C19: a Vector Index failure during retrieve propagates: the call gives
\* no document list, not even one made of the lexical Documents.
C19_VectorFailurePropagates ==
    result.failed \in {"vector", "where"} =>
        /\ result.status = "raised"
        /\ result.docs = <<>>

\* A hybrid call in which the vector search failed while the lexical side
\* had Documents the retriever's filter lets through.
C19_Witness ==
    /\ pipeline.kind = "hybrid"
    /\ result.failed = "vector"
    /\ HybridBM25Docs(pipeline, bm25_snapshot, last_query) # <<>>

\* A where document with its tenant clauses taken out.
WithoutTenant(where_filter) ==
    [where_filter EXCEPT
        !.tenant_id = Absent,
        !.and = SelectSeq(where_filter.and, LAMBDA c : c.field # "tenant_id")]

\* The retriever's own visibility test on a Document.
VisibilityLetsThrough(retriever, d) ==
    \/ retriever.kind = "vector"
    \/ retriever.visibility_allowed = <<>>
    \/ d.visibility \in SeqToSet(retriever.visibility_allowed)

\* Documents without tenant_id that the sub-searches rank among their best
\* K when tenants are left out of account, and that pass on visibility.
UnscopedCandidates ==
    { d \in SeqToSet(VectorSearch(vector_index, WithoutTenant(pipeline.where),
                                  last_query)) :
          d.tenant_id = None /\ VisibilityLetsThrough(pipeline, d) }
    \cup
    { d \in (IF pipeline.kind = "hybrid"
             THEN SeqToSet(_restore_bm25_text(
                      BM25Search(bm25_snapshot, _tokenize_question(last_query))))
             ELSE {}) :
          d.tenant_id = None /\ VisibilityLetsThrough(pipeline, d) }

\* C20: a Document without tenant_id matches any tenant: whatever tenant the
\* retriever is bound to, it is not dropped on tenant grounds, from the
\* vector sub-search or from the lexical one.
C20_UnscopedPassThrough ==
    result.status = "ok" =>
        \A d \in UnscopedCandidates : d.page_content \in Contents(result.docs)

\* Position of the first Document with content c in docs.
FirstIndex(docs, c) ==
    CHOOSE i \in DOMAIN docs :
        /\ docs[i].page_content = c
        /\ \A j \in 1..(i - 1) : docs[j].page_content # c

\* C22: the result lists the kept vector Documents first, in the order the
\* Vector Index returned them, then the kept lexical Documents whose content
\* is new, in the order the Lexical Index returned them.
C22_VectorFirstOrder ==
    (pipeline.kind = "hybrid" /\ result.status = "ok") =>
        LET vector_docs == HybridVectorDocs(pipeline, vector_index, last_query)
            bm25_docs == HybridBM25Docs(pipeline, bm25_snapshot, last_query)
            nv == Cardinality(Contents(vector_docs))
            docs == result.docs
        IN  /\ Len(docs) = Cardinality(Contents(vector_docs) \cup Contents(bm25_docs))
            /\ \A i \in DOMAIN docs :
                   IF i <= nv
                   THEN /\ docs[i].page_content \in Contents(vector_docs)
                        /\ docs[i] = vector_docs[FirstIndex(vector_docs, docs[i].page_content)]
                   ELSE /\ docs[i].page_content \notin Contents(vector_docs)
                        /\ docs[i].page_content \in Contents(bm25_docs)
                        /\ docs[i] = bm25_docs[FirstIndex(bm25_docs, docs[i].page_content)]
            /\ \A i, j \in DOMAIN docs :
                   (i < j /\ j <= nv) =>
                       FirstIndex(vector_docs, docs[i].page_content)
                           < FirstIndex(vector_docs, docs[j].page_content)
            /\ \A i, j \in DOMAIN docs :
                   (nv < i /\ i < j) =>
                       FirstIndex(bm25_docs, docs[i].page_content)
                           < FirstIndex(bm25_docs, docs[j].page_content)

\* Scenario B: role admin, vector [D1], lexical [D1 (tokenized copy),
\* D2 admin_only]; the result is [D1, D2].
C22_Witness ==
    /\ cfg = Config("admin", NoFilter, TRUE)
    /\ vector_index = << Doc("refund text", "public", DEFAULT_TENANT_ID, None) >>
    /\ bm25_snapshot = << Doc("refund  text", "public", DEFAULT_TENANT_ID, "refund text"),
                          Doc("salary text", "admin_only", DEFAULT_TENANT_ID, None) >>
    /\ result.status = "ok"
    /\ result.docs = << Doc("refund text", "public", DEFAULT_TENANT_ID, None),
                        Doc("salary text", "admin_only", DEFAULT_TENANT_ID, None) >>

\* C23: no content string appears twice in a list retrieve returns, in
\* hybrid and in vector-only mode, also when an index itself returns two
\* Documents with the same content.
C23_NoDuplicateContent ==
    result.status = "ok" => Len(result.docs) = Cardinality(Contents(result.docs))

\* C24: for every override filter, flat, list-form or neither, as for a
\* role, the predicate passed to the Vector Index is a conjunction of exactly
\* one exact-match clause on tenant_id and one set-membership clause on
\* visibility.
C24_PredicateFormat ==
    LET w == pipeline.where
    IN  /\ w.has_and
        /\ w.tenant_id = Absent /\ w.visibility = Absent /\ w.source = Absent
        /\ Len(w.and) = 2
        /\ \E i, j \in DOMAIN w.and :
               /\ w.and[i].field = "tenant_id" /\ w.and[i].val.k = "eq"
               /\ w.and[j].field = "visibility" /\ w.and[j].val.k = "in"

\* A lexical record as it should come out: original_text as the content when
\* the metadata has one, the stored content otherwise, metadata as stored.
Restored(d) ==
    [page_content |-> IF d.original_text # None THEN d.original_text ELSE d.page_content,
     visibility |-> d.visibility, tenant_id |-> d.tenant_id,
     original_text |-> d.original_text]

\* C25: every lexical result is returned, filtered and deduplicated under
\* its restored text: original_text when the metadata has it, the stored
\* content otherwise, with the metadata unchanged.
C25_RestoredText ==
    (pipeline.kind = "hybrid" /\ result.status = "ok") =>
        LET raw == LexicalAnswer
            vector_docs == HybridVectorDocs(pipeline, vector_index, last_query)
            kept == { i \in DOMAIN raw : _filter_docs(pipeline, << Restored(raw[i]) >>) # <<>> }
        IN  /\ \A d \in ResultDocs :
                   \/ d \in SeqToSet(vector_docs)
                   \/ \E i \in kept : d = Restored(raw[i])
            /\ \A i \in kept :
                   /\ Restored(raw[i]).page_content \in Contents(result.docs)
                   /\ (/\ Restored(raw[i]).page_content \notin Contents(vector_docs)
                       /\ \A j \in kept :
                              j < i => Restored(raw[j]).page_content
                                          # Restored(raw[i]).page_content)
                          => Restored(raw[i]) \in ResultDocs

\* A hybrid result holding a lexical Document returned under its
\* original_text and a lexical Document returned under its stored content.
C25_Witness ==
    /\ pipeline.kind = "hybrid" /\ result.status = "ok"
    /\ \E d \in ResultDocs :
           /\ d.original_text # None /\ d.page_content = d.original_text
           /\ \E r \in SeqToSet(LexicalAnswer) :
                  r.page_content # r.original_text /\ Restored(r) = d
    /\ \E d \in ResultDocs :
           /\ d.original_text = None
           /\ d \in SeqToSet(LexicalAnswer)
           /\ d \notin SeqToSet(HybridVectorDocs(pipeline, vector_index, last_query))

\* The AccessFilter as stated: a Document is dropped iff its visibility is
\* not in visibility_allowed (an empty set admits none) or its tenant_id is
\* present and differs from the bound tenant.
Dropped(retriever, d) ==
    \/ d.visibility \notin SeqToSet(retriever.visibility_allowed)
    \/ d.tenant_id # None /\ d.tenant_id # retriever.tenant_id

\* C27: in hybrid mode a lexical Document is dropped iff the bound
\* AccessFilter says so, also when the bound visibility_allowed is empty.
C27_LexicalPostHocFilter ==
    (pipeline.kind = "hybrid" /\ result.status = "ok") =>
        LET restored == SeqToSet(_restore_bm25_text(LexicalAnswer))
            vector_docs == HybridVectorDocs(pipeline, vector_index, last_query)
        IN  \A d \in restored :
                IF Dropped(pipeline, d)
                THEN d \in ResultDocs => d \in SeqToSet(vector_docs)
                ELSE d.page_content \in Contents(result.docs)

RECURSIVE FirstOccurrences(_)
FirstOccurrences(docs) ==
    IF docs = <<>> THEN <<>>
    ELSE LET front == FirstOccurrences(SubSeq(docs, 1, Len(docs) - 1))
             last == docs[Len(docs)]
         IN  IF last.page_content \in Contents(front) THEN front
             ELSE Append(front, last)

\* The bound AccessFilter on a vector Document: visibility outside a
\* non-empty visibility_allowed, or a tenant_id other than the bound one.
VectorDropped(retriever, d) ==
    \/ /\ retriever.visibility_allowed # <<>>
       /\ d.visibility \notin SeqToSet(retriever.visibility_allowed)
    \/ d.tenant_id # None /\ d.tenant_id # retriever.tenant_id

CallFilters ==
    { FilterDict(FALSE, <<>>, Str("t2"), Absent, Absent),
      FilterDict(FALSE, <<>>, Eq("t2"), Absent, Absent) }

\* Position of key in the cache, 0 when absent.
CacheIndex(cache, key) ==
    IF \E i \in DOMAIN cache : cache[i].key = key
    THEN CHOOSE i \in DOMAIN cache : cache[i].key = key
    ELSE 0

\* A hit makes the entry the most recently used one.
CacheTouch(cache, i) ==
    [j \in 1..Len(cache) |->
        IF j < i THEN cache[j] ELSE IF j < Len(cache) THEN cache[j + 1] ELSE cache[i]]

\* The store after the call: skipped when the key is there by now, evicting
\* the least recently used entry when the cache is full.
CacheStore(cache, key, inst, maxsize) ==
    IF CacheIndex(cache, key) # 0 THEN cache
    ELSE IF Len(cache) >= maxsize
    THEN Append(Tail(cache), [key |-> key, inst |-> inst])
    ELSE Append(cache, [key |-> key, inst |-> inst])

\* The normalized descriptor of a call: role calls by role, override calls
\* by the (tenant, visibility set) the filter parses to.
CallKey(via, role, filter_kwargs) ==
    IF via = "role" THEN << "role", role, {} >>
    ELSE << "override", BoundTenant(filter_kwargs),
            SeqToSet(OrList(BoundVisibility(role, filter_kwargs),
                            _visibility_allowed_for_role(role))) >>

\* Ids of the instances the threads hold for a key.
HeldFor(key) ==
    { returned[u].id : u \in { v \in Threads :
          /\ returned[v].status = "ok"
          /\ CallKey(returned[v].via, returned[v].role, returned[v].filter) = key } }

SomeDegraded ==
    \E u \in Threads : returned[u].status = "ok" /\ returned[u].retr.kind = "vector"

\* Some thread's latest call for the same key ended with an exception.
SomeFailed(via, role, filter_kwargs) ==
    \E u \in Threads :
        /\ returned[u].status = "raised"
        /\ CallKey(returned[u].via, returned[u].role, returned[u].filter)
               = CallKey(via, role, filter_kwargs)

NewFrame(via, role, filter_kwargs) ==
    [via |-> via, role |-> role, filter |-> filter_kwargs, id |-> calls + 1,
     bm25 |-> FALSE, prior |-> HeldFor(CallKey(via, role, filter_kwargs)),
     after_degraded |-> SomeDegraded,
     after_failure |-> SomeFailed(via, role, filter_kwargs)]

\* cause: the component whose construction raised.
Return(f, status, retr, id) ==
    [status |-> status, via |-> f.via, role |-> f.role, filter |-> f.filter,
     id |-> id, retr |-> retr, cause |-> "none", after_failure |-> f.after_failure]

\* get_rag_chain(role): the lru_cache lookup; a hit returns at once.
CallRole(t, role) ==
    /\ pc[t] = "idle"
    /\ calls < MaxCalls
    /\ calls' = calls + 1
    /\ LET i == CacheIndex(rag_cache, role)
           f == NewFrame("role", role, NoFilter)
       IN  IF i # 0
           THEN /\ rag_cache' = CacheTouch(rag_cache, i)
                /\ returned' = [returned EXCEPT ![t] =
                       Return(f, "ok", rag_cache[i].inst.retr, rag_cache[i].inst.id)]
                /\ UNCHANGED << pc, frame >>
           ELSE /\ frame' = [frame EXCEPT ![t] = f]
                /\ pc' = [pc EXCEPT ![t] = "vs_lookup"]
                /\ returned' = [returned EXCEPT ![t] = NoReturn]
                /\ UNCHANGED rag_cache
    /\ UNCHANGED << vs_cache, bm25_cache, file_exists, chroma_built >>
    /\ UNCHANGED rvars

\* get_qa_chain(filter_kwargs) with a filter: _build_retriever("user", ...)
\* directly, no cache in front of it.
CallOverride(t, filter_kwargs) ==
    /\ pc[t] = "idle"
    /\ calls < MaxCalls
    /\ calls' = calls + 1
    /\ frame' = [frame EXCEPT ![t] = NewFrame("override", "user", filter_kwargs)]
    /\ pc' = [pc EXCEPT ![t] = "vs_lookup"]
    /\ returned' = [returned EXCEPT ![t] = NoReturn]
    /\ UNCHANGED << rag_cache, vs_cache, bm25_cache, file_exists, chroma_built >>
    /\ UNCHANGED rvars

\* get_vectorstore(): the lru_cache lookup.
VsLookup(t) ==
    /\ pc[t] = "vs_lookup"
    /\ pc' = [pc EXCEPT ![t] = IF vs_cache THEN "bm25_lookup" ELSE "vs_build"]
    /\ UNCHANGED << rag_cache, vs_cache, bm25_cache, file_exists, frame, returned,
                    calls, chroma_built >>
    /\ UNCHANGED rvars

\* The failure of the construction kept in the cache of get_rag_chain.
VsBuild_caches_failure(t, ok) ==
    /\ pc[t] = "vs_build"
    /\ IF ok
       THEN /\ chroma_built' = chroma_built + 1
            /\ vs_cache' = TRUE
            /\ pc' = [pc EXCEPT ![t] = "bm25_lookup"]
            /\ UNCHANGED << frame, returned, rag_cache >>
       ELSE /\ returned' = [returned EXCEPT ![t] =
                   [Return(frame[t], "raised", VectorRetriever(NoFilter), 0)
                       EXCEPT !.cause = "vector"]]
            /\ rag_cache' = IF frame[t].via = "role"
                            THEN CacheStore(rag_cache, frame[t].role,
                                            [id |-> 0, retr |-> VectorRetriever(NoFilter)],
                                            RagCacheMaxSize)
                            ELSE rag_cache
            /\ frame' = [frame EXCEPT ![t] = IdleFrame]
            /\ pc' = [pc EXCEPT ![t] = "idle"]
            /\ UNCHANGED << vs_cache, chroma_built >>
    /\ UNCHANGED << bm25_cache, file_exists, calls >>
    /\ UNCHANGED rvars

\* get_vectorstore(): the body and the store.  Loading the embedding model
\* or opening the collection may raise; the exception leaves every cache as
\* it was and ends the call.
VsBuild(t, ok) ==
    /\ pc[t] = "vs_build"
    /\ IF ok
       THEN /\ chroma_built' = chroma_built + 1
            /\ vs_cache' = TRUE
            /\ pc' = [pc EXCEPT ![t] = "bm25_lookup"]
            /\ UNCHANGED << frame, returned >>
       ELSE /\ returned' = [returned EXCEPT ![t] =
                   [Return(frame[t], "raised", VectorRetriever(NoFilter), 0)
                       EXCEPT !.cause = "vector"]]
            /\ frame' = [frame EXCEPT ![t] = IdleFrame]
            /\ pc' = [pc EXCEPT ![t] = "idle"]
            /\ UNCHANGED << vs_cache, chroma_built >>
    /\ UNCHANGED << rag_cache, bm25_cache, file_exists, calls >>
    /\ UNCHANGED rvars

\* _get_bm25_retriever(): the lru_cache lookup; a cached None is a hit.
Bm25Lookup(t) ==
    /\ pc[t] = "bm25_lookup"
    /\ IF bm25_cache # "empty"
       THEN /\ frame' = [frame EXCEPT ![t].bm25 = (bm25_cache = "bm25")]
            /\ pc' = [pc EXCEPT ![t] = "assemble"]
       ELSE /\ pc' = [pc EXCEPT ![t] = "bm25_check"]
            /\ UNCHANGED frame
    /\ UNCHANGED << rag_cache, vs_cache, bm25_cache, file_exists, returned, calls,
                    chroma_built >>
    /\ UNCHANGED rvars

\* _get_bm25_retriever(): the body, os.path.exists deciding None or a
\* retriever.  With the file present, json.load, item["text"] or
\* BM25Retriever.from_documents may raise; the exception is not cached and
\* ends the call.
Bm25Check(t, ok) ==
    /\ pc[t] = "bm25_check"
    /\ ok \/ file_exists
    /\ IF ok
       THEN /\ frame' = [frame EXCEPT ![t].bm25 = file_exists]
            /\ pc' = [pc EXCEPT ![t] = "bm25_store"]
            /\ UNCHANGED returned
       ELSE /\ returned' = [returned EXCEPT ![t] =
                   [Return(frame[t], "raised", VectorRetriever(NoFilter), 0)
                       EXCEPT !.cause = "lexical"]]
            /\ frame' = [frame EXCEPT ![t] = IdleFrame]
            /\ pc' = [pc EXCEPT ![t] = "idle"]
    /\ UNCHANGED << rag_cache, vs_cache, bm25_cache, file_exists, calls, chroma_built >>
    /\ UNCHANGED rvars

\* _get_bm25_retriever(): the store after the body.
Bm25Store(t) ==
    /\ pc[t] = "bm25_store"
    /\ bm25_cache' = IF bm25_cache # "empty" THEN bm25_cache
                     ELSE IF frame[t].bm25 THEN "bm25" ELSE "none"
    /\ pc' = [pc EXCEPT ![t] = "assemble"]
    /\ UNCHANGED << rag_cache, vs_cache, file_exists, frame, returned, calls,
                    chroma_built >>
    /\ UNCHANGED rvars

\* The rest of _build_retriever, RetrievalQA.from_chain_type, and for
\* get_rag_chain the store of the lru_cache; the caller gets its own chain.
Assemble(t) ==
    /\ pc[t] = "assemble"
    /\ LET f == frame[t]
           retr == _build_retriever(f.role, f.filter, f.bm25)
           inst == [id |-> f.id, retr |-> retr]
       IN  /\ rag_cache' = IF f.via = "role"
                           THEN CacheStore(rag_cache, f.role, inst, RagCacheMaxSize)
                           ELSE rag_cache
           /\ returned' = [returned EXCEPT ![t] = Return(f, "ok", retr, f.id)]
    /\ frame' = [frame EXCEPT ![t] = IdleFrame]
    /\ pc' = [pc EXCEPT ![t] = "idle"]
    /\ UNCHANGED << vs_cache, bm25_cache, file_exists, calls, chroma_built >>
    /\ UNCHANGED rvars

\* The lexical snapshot file is written while the server runs.
FileAppears ==
    /\ ~file_exists
    /\ file_exists' = TRUE
    /\ UNCHANGED << rag_cache, vs_cache, bm25_cache, pc, frame, returned, calls,
                    chroma_built >>
    /\ UNCHANGED rvars

Init ==
    /\ CacheInit
    /\ file_exists \in BOOLEAN
    /\ cfg = Config("user", NoFilter, FALSE)
    /\ pipeline = _build_retriever("user", NoFilter, FALSE)
    /\ vector_index = <<>>
    /\ bm25_snapshot = <<>>
    /\ last_query = "refund"
    /\ result = NoResult

Next ==
    \/ \E t \in Threads, raw \in RawRoles : CallRole(t, RouterRole(raw))
    \/ \E t \in Threads, f \in CallFilters : CallOverride(t, f)
    \/ \E t \in Threads : VsLookup(t)
    \/ \E t \in Threads, ok \in BOOLEAN : VsBuild(t, ok)
    \/ \E t \in Threads : Bm25Lookup(t)
    \/ \E t \in Threads, ok \in BOOLEAN : Bm25Check(t, ok)
    \/ \E t \in Threads : Bm25Store(t)
    \/ \E t \in Threads : Assemble(t)
    \/ FileAppears

Spec == Init /\ [][Next]_vars

(***************************************************************************)
(* Properties of the memoisation (Spec).                                    *)
(***************************************************************************)
OkReturn(t) == returned[t].status = "ok"

ReturnKey(r) == CallKey(r.via, r.role, r.filter)

\* Thread t hands a chain to its caller in this step.
Returns(t) == returned'[t] # returned[t] /\ returned'[t].status = "ok"

\* C4: concurrent first-time get_rag_chain calls for one role construct one
\* pipeline, and both callers receive that same instance.
C4_OneInstancePerRole ==
    \A t1, t2 \in Threads :
        (/\ OkReturn(t1) /\ OkReturn(t2)
         /\ returned[t1].via = "role" /\ returned[t2].via = "role"
         /\ returned[t1].role = returned[t2].role)
            => returned[t1].id = returned[t2].id

\* C6: once a pipeline was built vector-only because the snapshot file was
\* absent, every pipeline whose construction starts later is vector-only
\* too, also when the file has appeared meanwhile.
C6_LexicalStaysDisabled ==
    [][\A t \in Threads :
           (pc[t] = "assemble" /\ pc'[t] = "idle" /\ frame[t].after_degraded)
               => returned'[t].retr.kind = "vector"]_vars

\* C8: once get_rag_chain(role) has returned an instance, every call for
\* that role started later returns the same instance.
C8_SameInstanceForever ==
    [][\A t \in Threads :
           (Returns(t) /\ returned'[t].via = "role") =>
               LET prior == IF pc[t] = "idle"
                            THEN HeldFor(ReturnKey(returned'[t]))
                            ELSE frame[t].prior
               IN  prior \subseteq { returned'[t].id }]_vars

\* C9: two get_qa_chain calls whose filters normalize to the same
\* (tenant, visibility set) return the same instance.
C9_OverrideMemoized ==
    \A t1, t2 \in Threads :
        (/\ OkReturn(t1) /\ OkReturn(t2)
         /\ returned[t1].via = "override" /\ returned[t2].via = "override"
         /\ ReturnKey(returned[t1]) = ReturnKey(returned[t2]))
            => returned[t1].id = returned[t2].id

\* C12: a role outside {admin, user} gets no visibility set: get_rag_chain
\* with such a role hands no pipeline to its caller and caches none.
C12_UnknownRoleRejected ==
    /\ \A t \in Threads :
           (returned[t].via = "role" /\ returned[t].role \notin {"admin", "user"})
               => returned[t].status # "ok"
    /\ \A i \in DOMAIN rag_cache : rag_cache[i].key \in {"admin", "user"}

\* C21: rag_chat answers 503 (get_rag_chain raised) only when the vector
\* store could not be set up: no other construction failure gives 503.
C21_503OnlyForVectorIndex ==
    \A t \in Threads :
        (returned[t].status = "raised" /\ returned[t].via = "role")
            => returned[t].cause = "vector"

\* Thread t's call ends with an exception in this step.
Fails(t) == returned'[t] # returned[t] /\ returned'[t].status = "raised"

\* C28: a failed construction is not memoized.  A get_rag_chain call that
\* raises stores nothing; a call answered without constructing gets an
\* instance that a successful construction stored; and a construction that
\* succeeds while the role has no entry is the one cached.
C28_FailureNotMemoized ==
    [][\A t \in Threads :
           /\ (Fails(t) /\ returned'[t].via = "role") => rag_cache' = rag_cache
           /\ (pc[t] = "idle" /\ pc'[t] = "idle" /\ returned'[t] # returned[t]) =>
                  LET i == CacheIndex(rag_cache, returned'[t].role)
                  IN  /\ returned'[t].status = "ok"
                      /\ i # 0
                      /\ rag_cache[i].inst.id = returned'[t].id
                      /\ rag_cache[i].inst.id # 0
           /\ (pc[t] = "assemble" /\ pc'[t] = "idle" /\ frame[t].via = "role") =>
                  LET i == CacheIndex(rag_cache', frame[t].role)
                  IN  /\ i # 0
                      /\ CacheIndex(rag_cache, frame[t].role) = 0
                             => rag_cache'[i].inst.id = frame[t].id]_vars

\* A get_rag_chain call started after a call for the same role had raised:
\* it built the pipeline, and that instance is the cached one.
C28_Witness ==
    \E t \in Threads :
        /\ returned[t].status = "ok" /\ returned[t].via = "role"
        /\ returned[t].after_failure
        /\ \E i \in DOMAIN rag_cache :
               /\ rag_cache[i].key = returned[t].role
               /\ rag_cache[i].inst.id = returned[t].id

(***************************************************************************)
(* Concurrent calls on one retriever: specification SpecShared.            *)
(* rag_chat runs in the server's thread pool and the chain of a role is    *)
(* one cached object, so several threads run _get_relevant_documents on    *)
(* the same HybridRetriever.  A thread may be preempted between any two    *)
(* statements; the searches are calls into the stores and read only.       *)
(***************************************************************************)
\* The pipelines the threads share: the role chains, a vector-only chain,
\* and an override chain bound to no visibility list.
SharedConfigs ==
    { Config("user", NoFilter, TRUE), Config("admin", NoFilter, TRUE),
      Config("user", NoFilter, FALSE),
      Config("user", FilterDict(FALSE, <<>>, Absent, Absent, Str("a.txt")), TRUE) }

\* The locals of one call: query, vector_docs, bm25_docs, the rest of the
\* list the for loop walks, and the merged dict in insertion order.
SharedIdle ==
    [q |-> "refund", vector_docs |-> <<>>, bm25_docs |-> <<>>, pending |-> <<>>,
     merged |-> <<>>]

NoSharedReturn == [status |-> "none", q |-> "refund", docs |-> <<>>]

\* The merged dict kept in one place for all calls.
MergedCell_shared(t) == "T1"

\* Where the merged dict of thread t's call lives: a local of the call.
MergedCell(t) == t

SharedInit ==
    /\ cfg \in SharedConfigs
    /\ pipeline = _build_retriever(cfg.role, cfg.filter, cfg.bm25)
    /\ vector_index \in { l \in SeqsUpTo(VectorDocs, 2) :
                              Len(l) = 2 /\ Cardinality(SeqToSet(l)) = 2 }
    /\ bm25_snapshot \in IF cfg.bm25
                         THEN { l \in SeqsUpTo(LexicalDocs, MaxDocs - 2) :
                                    /\ Len(l) = MaxDocs - 2
                                    /\ Cardinality(SeqToSet(l)) = Len(l) }
                         ELSE { <<>> }
    /\ last_query = "refund"
    /\ result = NoResult
    /\ rag_cache = <<>>
    /\ vs_cache = TRUE
    /\ bm25_cache = "empty"
    /\ file_exists = cfg.bm25
    /\ chroma_built = 1
    /\ calls = 0
    /\ pc = [t \in Threads |-> "idle"]
    /\ frame = [t \in Threads |-> SharedIdle]
    /\ returned = [t \in Threads |-> NoSharedReturn]

\* retriever.get_relevant_documents(query) entered by thread t.
SharedCall(t, q) ==
    /\ pc[t] = "idle"
    /\ calls < MaxCalls
    /\ calls' = calls + 1
    /\ frame' = [frame EXCEPT ![t].q = q, ![t].vector_docs = <<>>,
                              ![t].bm25_docs = <<>>, ![t].pending = <<>>]
    /\ returned' = [returned EXCEPT ![t] = NoSharedReturn]
    /\ pc' = [pc EXCEPT ![t] = "vector"]
    /\ UNCHANGED << rag_cache, vs_cache, bm25_cache, file_exists, chroma_built >>
    /\ UNCHANGED rvars

\* The vector search and its filter; a bare vector retriever returns here.
SharedVector(t) ==
    /\ pc[t] = "vector"
    /\ IF pipeline.kind = "hybrid"
       THEN /\ frame' = [frame EXCEPT ![t].vector_docs =
                             HybridVectorDocs(pipeline, vector_index, frame[t].q)]
            /\ pc' = [pc EXCEPT ![t] = "bm25"]
            /\ UNCHANGED returned
       ELSE /\ returned' = [returned EXCEPT ![t] =
                   [status |-> "ok", q |-> frame[t].q,
                    docs |-> VectorSearch(vector_index, pipeline.where, frame[t].q)]]
            /\ pc' = [pc EXCEPT ![t] = "idle"]
            /\ UNCHANGED frame
    /\ UNCHANGED << rag_cache, vs_cache, bm25_cache, file_exists, chroma_built,
                    calls >>
    /\ UNCHANGED rvars

\* Tokenization, the lexical search, the restoration and the filter.
SharedBM25(t) ==
    /\ pc[t] = "bm25"
    /\ frame' = [frame EXCEPT ![t].bm25_docs =
                     HybridBM25Docs(pipeline, bm25_snapshot, frame[t].q)]
    /\ bm25_snapshot' = SnapshotAfterCall(bm25_snapshot)
    /\ pc' = [pc EXCEPT ![t] = "merge_init"]
    /\ UNCHANGED << rag_cache, vs_cache, bm25_cache, file_exists, chroma_built,
                    calls, returned >>
    /\ UNCHANGED << cfg, pipeline, vector_index, last_query, result >>

\* merged = {} and the list vector_docs + bm25_docs the loop iterates.
SharedMergeInit(t) ==
    /\ pc[t] = "merge_init"
    /\ frame' = [[frame EXCEPT ![t].pending = frame[t].vector_docs \o frame[t].bm25_docs]
                     EXCEPT ![MergedCell(t)].merged = <<>>]
    /\ pc' = [pc EXCEPT ![t] = "merge"]
    /\ UNCHANGED << rag_cache, vs_cache, bm25_cache, file_exists, chroma_built,
                    calls, returned >>
    /\ UNCHANGED rvars

\* One iteration of the loop, or its end.
SharedMergeStep(t) ==
    /\ pc[t] = "merge"
    /\ IF frame[t].pending = <<>>
       THEN /\ pc' = [pc EXCEPT ![t] = "return"]
            /\ UNCHANGED frame
       ELSE LET doc == Head(frame[t].pending)
                merged == frame[MergedCell(t)].merged
            IN  /\ frame' = [[frame EXCEPT ![t].pending = Tail(frame[t].pending)]
                                 EXCEPT ![MergedCell(t)].merged =
                                            MergeInto(merged, << doc >>)]
                /\ UNCHANGED pc
    /\ UNCHANGED << rag_cache, vs_cache, bm25_cache, file_exists, chroma_built,
                    calls, returned >>
    /\ UNCHANGED rvars

\* return list(merged.values())
SharedReturn(t) ==
    /\ pc[t] = "return"
    /\ returned' = [returned EXCEPT ![t] =
           [status |-> "ok", q |-> frame[t].q, docs |-> frame[MergedCell(t)].merged]]
    /\ pc' = [pc EXCEPT ![t] = "idle"]
    /\ UNCHANGED << rag_cache, vs_cache, bm25_cache, file_exists, chroma_built,
                    calls, frame >>
    /\ UNCHANGED rvars

SharedNext ==
    \/ \E t \in Threads, q \in Queries : SharedCall(t, q)
    \/ \E t \in Threads : SharedVector(t)
    \/ \E t \in Threads : SharedBM25(t)
    \/ \E t \in Threads : SharedMergeInit(t)
    \/ \E t \in Threads : SharedMergeStep(t)
    \/ \E t \in Threads : SharedReturn(t)

SpecShared == SharedInit /\ [][SharedNext]_vars

(***************************************************************************)
(* Properties of concurrent retrieval (SpecShared).                        *)
(***************************************************************************)
\* C26: concurrent calls on one retriever do not interfere.  Under every
\* interleaving a call returns the list the same call returns when it runs
\* alone, and no step of a call changes the retriever, the vector index or
\* the lexical snapshot.
C26_NoInterference ==
    [][/\ \A t \in Threads :
              (returned'[t] # returned[t] /\ returned'[t].status = "ok") =>
                  returned'[t].docs =
                      Retrieve(pipeline, vector_index, bm25_snapshot, returned'[t].q)
       /\ pipeline' = pipeline
       /\ vector_index' = vector_index
       /\ bm25_snapshot' = bm25_snapshot]_vars

\* Two calls with different queries overlap on a hybrid retriever: one has
\* finished its loop and is about to return a non-empty list while the
\* other is inside its loop holding a different, non-empty merged dict,
\* and the two calls return different lists.
C26_Witness ==
    \E t, u \in Threads :
        /\ t # u
        /\ pipeline.kind = "hybrid"
        /\ pc[t] = "return" /\ pc[u] = "merge"
        /\ frame[t].q # frame[u].q
        /\ frame[t].merged # <<>> /\ frame[u].merged # <<>>
        /\ frame[t].merged # frame[u].merged
        /\ Retrieve(pipeline, vector_index, bm25_snapshot, frame[t].q)
               # Retrieve(pipeline, vector_index, bm25_snapshot, frame[u].q)

====
